---- MODULE Spec2Model ----
(***************************************************************************)
(* FlyBase bulk-file scripts: the ID updater (ids/fbgn_updater.py), the    *)
(* symbol lookup (symbols/symbol_to_id_lookup.py) and the FASTA extractor  *)
(* (fasta/flybase_id_to_fasta.py).  Each script is a run of one process:   *)
(* it reads a reference file row by row into an inverted index, then       *)
(* answers the lines of the user's files one by one.  Text is kept as      *)
(* strings and taken apart character by character, as the code does.       *)
(***************************************************************************)
EXTENDS Integers, Sequences, FiniteSets, TLC

VARIABLES
    script,         \* which of the three scripts this run is
    src,            \* the reference file of the updater or symbol script: its lines
    queries,        \* the user's list file of the updater or symbol script: its lines
    pc,             \* where the run is: "build", "resolve", "done", "usage", "crashed"
    row,            \* reference rows (or FASTA records) the index builder has finished
    fbid_dict,      \* updater: secondary ID -> set of primary IDs
    current_fbids,  \* updater: the set of primary IDs
    symbol_dict,    \* symbol script: symbol or synonym -> set of FlyBase IDs
    qn,             \* user lines (or FASTA id files) the resolver has finished
    stdout,         \* the lines printed to standard output
    stderr,         \* the messages printed to standard error
    fasta_file,     \* FASTA extractor: the --fasta file
    idfiles,        \* FASTA extractor: the id-list files of the command line
    fasta_records,  \* FASTA extractor: the parsed (header, sequence) records
    fasta_idx,      \* FASTA extractor: FlyBase ID -> list of record indices
    outputs         \* FASTA extractor: per id file, the text written to its .fasta

vars == <<script, src, queries, pc, row, fbid_dict, current_fbids, symbol_dict,
          qn, stdout, stderr, fasta_file, idfiles, fasta_records, fasta_idx, outputs>>

(***************************************************************************)
(* Bounds of the model.                                                    *)
(***************************************************************************)
\* Lines of a reference file, records of a FASTA file.
MaxRows == 2
\* Lines of a user's list file, id files of one FASTA invocation.
MaxQueries == 2

(***************************************************************************)
(* Python's str and re primitives, on strings.                             *)
(***************************************************************************)
\* s[i-1:i] of Python: the i-th character, or "" past the end.
Char(s, i) == IF i \in 1..Len(s) THEN SubSeq(s, i, i) ELSE ""

\* The characters str.strip() removes and \s matches (ASCII).
Whitespace == {" ", "\t", "\n", "\r", "\f"}

\* The characters \w matches (ASCII).
WordChars ==
    {"a","b","c","d","e","f","g","h","i","j","k","l","m",
     "n","o","p","q","r","s","t","u","v","w","x","y","z",
     "A","B","C","D","E","F","G","H","I","J","K","L","M",
     "N","O","P","Q","R","S","T","U","V","W","X","Y","Z",
     "0","1","2","3","4","5","6","7","8","9","_"}

Digits == {"0","1","2","3","4","5","6","7","8","9"}

RECURSIVE LStrip(_)
LStrip(s) ==
    IF Len(s) > 0 /\ Char(s, 1) \in Whitespace
    THEN LStrip(SubSeq(s, 2, Len(s)))
    ELSE s

RECURSIVE RStrip(_)
RStrip(s) ==
    IF Len(s) > 0 /\ Char(s, Len(s)) \in Whitespace
    THEN RStrip(SubSeq(s, 1, Len(s) - 1))
    ELSE s

\* str.strip()
Strip(s) == RStrip(LStrip(s))

\* str.startswith(prefix)
StartsWith(s, prefix) ==
    Len(prefix) <= Len(s) /\ SubSeq(s, 1, Len(prefix)) = prefix

\* prefix occurs in s at position i
MatchAt(s, i, prefix) ==
    i + Len(prefix) - 1 <= Len(s) /\ SubSeq(s, i, i + Len(prefix) - 1) = prefix

\* the `in` operator on strings
Contains(s, sub) == \E i \in 1..(Len(s) + 1) : MatchAt(s, i, sub)

\* str.split(sep) for a one-character separator: never an empty list.
RECURSIVE SplitFrom(_, _, _, _)
SplitFrom(s, sep, start, i) ==
    IF i > Len(s) THEN <<SubSeq(s, start, Len(s))>>
    ELSE IF Char(s, i) = sep
         THEN <<SubSeq(s, start, i - 1)>> \o SplitFrom(s, sep, i + 1, i + 1)
         ELSE SplitFrom(s, sep, start, i + 1)

Split(s, sep) == SplitFrom(s, sep, 1, 1)

\* sep.join(items)
RECURSIVE Join(_, _)
Join(items, sep) ==
    IF Len(items) = 0 THEN ""
    ELSE IF Len(items) = 1 THEN items[1]
    ELSE items[1] \o sep \o Join(Tail(items), sep)

\* The orders in which iterating a Python set may yield its elements.
Orders(S) ==
    {o \in [1..Cardinality(S) -> S] :
        \A a, b \in 1..Cardinality(S) : a # b => o[a] # o[b]}

Range(f) == {f[x] : x \in DOMAIN f}

(***************************************************************************)
(* ids/fbgn_updater.py                                                     *)
(***************************************************************************)
\* The empty dict.
EmptyDict == [k \in {} |-> {}]

\* insert_fbid with the set replaced, not extended, for a key seen before.
insert_fbid_overwrite(primary, secondary, dict) ==
    IF secondary # ""
    THEN [k \in DOMAIN dict \cup {secondary} |->
            IF k = secondary THEN {primary} ELSE dict[k]]
    ELSE dict

\* insert_fbid(primary, secondary, fbid_dict): the dict after the call.
insert_fbid(primary, secondary, dict) ==
    IF secondary # "" /\ secondary \notin DOMAIN dict
    THEN [k \in DOMAIN dict \cup {secondary} |->
            IF k = secondary THEN {primary} ELSE dict[k]]
    ELSE IF secondary # ""
    THEN [dict EXCEPT ![secondary] = @ \cup {primary}]
    ELSE dict

\* [insert_fbid(primary, fbid, fbid_dict) for fbid in secondary_fbid_list]
RECURSIVE insert_all(_, _, _)
insert_all(primary, secondary_list, dict) ==
    IF Len(secondary_list) = 0 THEN dict
    ELSE insert_all(primary, Tail(secondary_list),
                    insert_fbid(primary, Head(secondary_list), dict))

\* The filter of generate_inverted_fbid_dict on a trimmed line.
fbid_retained(line) == ~StartsWith(line, "#") /\ Contains(line, "FBgn")

\* The unpacking of a retained row needs four fields; fewer raise ValueError.
fbid_unpacks(line) == Len(Split(line, "\t")) >= 4

\* One iteration of the loop of generate_inverted_fbid_dict on a retained row
\* that unpacks: the dict after it.
fbid_row_dict(line, dict) ==
    LET fields == Split(line, "\t")
        primary_fbid == fields[3]
        secondary_fbid_list == Split(fields[4], ",")
    IN  insert_all(primary_fbid, secondary_fbid_list, dict)

\* The current set fed from the symbol column instead of the primary ID.
fbid_row_current_symbol(line, current) == current \cup {Split(line, "\t")[1]}

\* ... and the set of current IDs after it.
fbid_row_current(line, current) == current \cup {Split(line, "\t")[3]}

\* The command-line arguments of the updater and its working directory.
user_ids == "ids.txt"
fbgn_db_acc == "fbgn_annotation_ID.tsv"
Cwd == "/work"

\* os.path.abspath of a path without dot segments.
abspath(p) == IF StartsWith(p, "/") THEN p ELSE Cwd \o "/" \o p

\* The two print calls of __main__ before main(): four lines.
UpdaterHeader ==
    << "# FlyBase ID Updater",
       "# Input = " \o abspath(user_ids),
       "# ID Reference = " \o abspath(fbgn_db_acc),
       "# Submitted_ID\tUpdated_ID(s)" >>

UpdaterUsage == "Usage: fbgn_updater.py your_FBgn_ids.txt fbgn_annotation_ID.tsv"

\* main() printing the updated IDs without the submitted ID.
main_lines_ids_only(fbid, dict, current) ==
    IF fbid \in current THEN {fbid}
    ELSE IF fbid \in DOMAIN dict
    THEN {Join(o, "\t") : o \in Orders(dict[fbid])}
    ELSE {fbid \o "\tNone"}

\* main() looking the ID up in the inverted dict before the current set.
main_lines_index_first(fbid, dict, current) ==
    IF fbid \in DOMAIN dict
    THEN {fbid \o "\t" \o Join(o, "\t") : o \in Orders(dict[fbid])}
    ELSE IF fbid \in current THEN {fbid}
    ELSE {fbid \o "\tNone"}

\* main() printing the bare ID in the KeyError handler.
main_lines_miss_bare(fbid, dict, current) ==
    IF fbid \in current THEN {fbid}
    ELSE IF fbid \in DOMAIN dict
    THEN {fbid \o "\t" \o Join(o, "\t") : o \in Orders(dict[fbid])}
    ELSE {fbid}

\* The lines main() may print for one stripped user line: iterating the set
\* of IDs yields them in any order; a KeyError prints the None line.
main_lines(fbid, dict, current) ==
    IF fbid \in current THEN {fbid}
    ELSE IF fbid \in DOMAIN dict
    THEN {fbid \o "\t" \o Join(o, "\t") : o \in Orders(dict[fbid])}
    ELSE {fbid \o "\tNone"}

(***************************************************************************)
(* symbols/symbol_to_id_lookup.py                                          *)
(***************************************************************************)
\* insert_symbol(symbol, fbid, dict): the dict after the call.
insert_symbol(symbol, fbid, dict) ==
    IF symbol # "" /\ symbol \notin DOMAIN dict
    THEN [k \in DOMAIN dict \cup {symbol} |->
            IF k = symbol THEN {fbid} ELSE dict[k]]
    ELSE IF symbol # ""
    THEN [dict EXCEPT ![symbol] = @ \cup {fbid}]
    ELSE dict

\* [insert_symbol(syn, fbid, symbol_dict) for syn in ...]
RECURSIVE insert_symbols(_, _, _)
insert_symbols(syns, fbid, dict) ==
    IF Len(syns) = 0 THEN dict
    ELSE insert_symbols(Tail(syns), fbid, insert_symbol(Head(syns), fbid, dict))

\* The split without the lookahead: at every comma.
comma_split(s) == Split(s, ",")

\* comma_ns_re.split(s), comma_ns_re = ",(?!\s)": split at each comma that is
\* not followed by a whitespace character (a comma at the end splits).
RECURSIVE comma_ns_from(_, _, _)
comma_ns_from(s, start, i) ==
    IF i > Len(s) THEN <<SubSeq(s, start, Len(s))>>
    ELSE IF Char(s, i) = "," /\ ~(i < Len(s) /\ Char(s, i + 1) \in Whitespace)
         THEN <<SubSeq(s, start, i - 1)>> \o comma_ns_from(s, i + 1, i + 1)
         ELSE comma_ns_from(s, start, i + 1)

comma_ns_split(s) == comma_ns_from(s, 1, 1)

\* The filter of generate_inverted_symbol_dict on a trimmed line.
symbol_retained(line) == StartsWith(line, "FBgn") \/ StartsWith(line, "FBtr")

\* cols[n] of Python, n counted from 0.
Col(cols, n) == cols[n + 1]

\* Whether the try block of a retained row raises IndexError: cols[0] of a row
\* with no column after the ID, or cols[1] of a Dmel row with one.
symbol_index_error(line) ==
    LET cols == Tail(Split(line, "\t"))
    IN  Len(cols) = 0 \/ (Col(cols, 0) = "Dmel" /\ Len(cols) < 2)

\* The try block of a retained row that raises nothing: the dict after it.
symbol_row_dict(line, dict) ==
    LET parts == Split(line, "\t")
        fbid == Head(parts)
        cols == Tail(parts)
        col_len == Len(cols)
        d1 == insert_symbol(Col(cols, 1), fbid, dict)
        d2 == IF col_len >= 3 /\ Col(cols, 2) # ""
              THEN insert_symbol(Col(cols, 2), fbid, d1) ELSE d1
        d3 == IF col_len >= 4 /\ Col(cols, 3) # ""
              THEN insert_symbols(comma_ns_split(Col(cols, 3)), fbid, d2) ELSE d2
        d4 == IF col_len >= 5 /\ Col(cols, 4) # ""
              THEN insert_symbols(comma_ns_split(Col(cols, 4)), fbid, d3) ELSE d3
    IN  IF Col(cols, 0) # "Dmel" THEN dict ELSE d4

\* The message of the IndexError handler.
FormatDiagnostic(line) == "Formatting problem found in line:\n" \o line

\* The lookup loop joining the IDs with tabs.
lookup_lines_tabs(symbol, dict) ==
    IF symbol \in DOMAIN dict
    THEN {symbol \o "\t" \o Join(o, "\t") : o \in Orders(dict[symbol])}
    ELSE {symbol}

\* The lines the lookup loop may print for one stripped user line.
lookup_lines(symbol, dict) ==
    IF symbol \in DOMAIN dict
    THEN {symbol \o "\t" \o Join(o, ",") : o \in Orders(dict[symbol])}
    ELSE {symbol}

(***************************************************************************)
(* fasta/flybase_id_to_fasta.py                                            *)
(***************************************************************************)
\* How many characters of s from position i on are in cls.
RECURSIVE RunLen(_, _, _)
RunLen(s, i, cls) ==
    IF i <= Len(s) /\ Char(s, i) \in cls THEN 1 + RunLen(s, i + 1, cls) ELSE 0

\* pattern.findall(text) for a pattern tag([cls]+); : the captured groups, left
\* to right, the scan resuming after each match.
RECURSIVE FindAll(_, _, _, _)
FindAll(text, pos, tag, cls) ==
    IF pos > Len(text) THEN <<>>
    ELSE LET start == pos + Len(tag)
             run == RunLen(text, start, cls)
         IN  IF MatchAt(text, pos, tag) /\ run >= 1 /\ Char(text, start + run) = ";"
             THEN <<SubSeq(text, start, start + run - 1)>>
                      \o FindAll(text, start + run + 1, tag, cls)
             ELSE FindAll(text, pos + 1, tag, cls)

\* PARENT_REGEX = parent=([\w,]+);     ID_TAG_REGEX = ID=(\w+);
PARENT_REGEX == [tag |-> "parent=", cls |-> WordChars \cup {","}]
ID_TAG_REGEX == [tag |-> "ID=", cls |-> WordChars]

\* FLYBASE_ID_REGEX.match(line), FLYBASE_ID_REGEX = ^\s*FB\w\w\d+\s*$
FLYBASE_ID_MATCH(line) ==
    LET t == Strip(line)
    IN  /\ StartsWith(t, "FB")
        /\ Len(t) >= 5
        /\ Char(t, 3) \in WordChars
        /\ Char(t, 4) \in WordChars
        /\ \A i \in 5..Len(t) : Char(t, i) \in Digits

\* The elements of the strings of a list, each split at its commas.
RECURSIVE SplitEach(_)
SplitEach(matches) ==
    IF Len(matches) = 0 THEN {}
    ELSE Range(Split(Head(matches), ",")) \cup SplitEach(Tail(matches))

\* get_header_ids(fasta_header, header_pattern): the frozenset of IDs.
get_header_ids(fasta_header, header_pattern) ==
    SplitEach(FindAll(fasta_header, 1, header_pattern.tag, header_pattern.cls))

\* idx[header_id] = idx.get(header_id, []) + [i]
idx_add(index, header_id, i) ==
    [k \in DOMAIN index \cup {header_id} |->
        IF k = header_id
        THEN (IF k \in DOMAIN index THEN index[k] ELSE <<>>) \o <<i>>
        ELSE index[k]]

RECURSIVE idx_add_all(_, _, _)
idx_add_all(index, header_ids, i) ==
    IF Len(header_ids) = 0 THEN index
    ELSE idx_add_all(idx_add(index, Head(header_ids), i), Tail(header_ids), i)

\* The body of the enumerate loop of read_fasta for record number i (from 0):
\* header_ids is the parent IDs followed by the ID-tag IDs, each set in some
\* order; the resulting index does not depend on the two orders.
read_fasta_idx(index, record, i) ==
    LET parents == CHOOSE o \in Orders(get_header_ids(record[1], PARENT_REGEX)) : TRUE
        tags == CHOOSE o \in Orders(get_header_ids(record[1], ID_TAG_REGEX)) : TRUE
    IN  idx_add_all(index, parents \o tags, i)

\* The frozenset read_id_file returns for a readable file.
read_id_file(lines) ==
    {Strip(lines[n]) : n \in {m \in 1..Len(lines) : FLYBASE_ID_MATCH(lines[m])}}

\* textwrap.wrap(text, width) of a text without whitespace, joined by "\n".
WrapWidth == 80

RECURSIVE wrap_join(_, _)
wrap_join(text, width) ==
    IF Len(text) <= width THEN text
    ELSE SubSeq(text, 1, width) \o "\n" \o wrap_join(SubSeq(text, width + 1, Len(text)), width)

\* The text of one fh.write of fbid_to_fasta for record number i (from 0).
fasta_entry(fasta, i) ==
    ">" \o fasta[i + 1][1] \o "\n" \o wrap_join(fasta[i + 1][2], WrapWidth) \o "\n"

RECURSIVE fasta_entries(_, _)
fasta_entries(fasta, indices) ==
    IF Len(indices) = 0 THEN <<>>
    ELSE <<fasta_entry(fasta, Head(indices))>> \o fasta_entries(fasta, Tail(indices))

\* The writes of fbid_to_fasta for the IDs in iteration order, up to the first
\* ID that is not in the index (index[fbid] raises KeyError there).
RECURSIVE fbid_to_fasta_writes(_, _, _)
fbid_to_fasta_writes(ids, fasta, index) ==
    IF Len(ids) = 0 \/ Head(ids) \notin DOMAIN index THEN <<>>
    ELSE fasta_entries(fasta, index[Head(ids)])
            \o fbid_to_fasta_writes(Tail(ids), fasta, index)

\* Whether fbid_to_fasta raises KeyError.
fbid_to_fasta_raises(ids, index) == \E n \in 1..Len(ids) : ids[n] \notin DOMAIN index

(***************************************************************************)
(* The files a run may be given.                                           *)
(***************************************************************************)
SeqsUpTo(S, n) == UNION {[1..k -> S] : k \in 0..n}

\* Lines of an fbgn_annotation_ID file: symbol, species, primary FBgn,
\* secondary FBgn(s), further columns.
UpdaterLines ==
    { "a\tDmel\tFBgn2\tFBgn9,FBgn8\n",
      "b\tDmel\tFBgn3\tFBgn9\tCG3\n",
      "c\tDmel\tFBgn9\tFBgn2\tCG9\n",
      "d\tDmel\tFBgn6\tFBgn8,,FBgn8\tCG6\n",
      "e\tDmel\t\tFBgn8\tCG5\n",
      "## FBgn list\n",
      "f\tDmel\tFBgn7\t\n" }

\* Lines of a user's ID list.
UpdaterQueries == { "FBgn2\n", " FBgn9 \n", "FBgn0\n", "\n" }

\* Lines of a synonym file: ID, species, symbol, full name, full name
\* synonyms, symbol synonyms.
SymbolLines ==
    { "FBgn1\tDmel\tsA\tFull A\tn1,n2\ts1, x\n",
      "FBtr2\tDmel\tsA\t\tn1,,n3,\tn1\n",
      " FBgn7\tDmel\t\tFull A\t\n",
      "FBgn3\tDsim\tsB\tFull B\n",
      "FBgn4\n",
      "FBgn5\tDmel\n",
      "FBal6\tDmel\tsC\n" }

\* Lines of a user's symbol list.
SymbolQueries == { "sA\n", " n1 \n", "zz\n", "\n" }

\* (header, sequence) records as SimpleFastaParser yields them.
FastaRecords ==
    { <<"t1 type=mRNA; parent=FBgn1; ID=FBtr1;", "ACGT">>,
      <<"t2 parent=FBgn1,FBgn2; ID=FBtr2;", "GG">>,
      <<"g1 ID=FBgn1; parent=FBgn1;", "TTA">>,
      <<"x1 no tags", "">> }

\* The --fasta file: absent, not gzipped, or gzipped with its records.
FastaFiles ==
    {[kind |-> "missing", recs |-> <<>>], [kind |-> "plain", recs |-> <<>>]}
        \cup {[kind |-> "gz", recs |-> r] : r \in SeqsUpTo(FastaRecords, MaxRows)}

\* An ID list file: absent, or its lines.
IdFiles ==
    { [kind |-> "missing", lines |-> <<>>],
      [kind |-> "file", lines |-> <<"FBgn1\n">>],
      [kind |-> "file", lines |-> <<" FBtr2 \n", "junk\n", "FBgn2\n">>],
      [kind |-> "file", lines |-> <<"FBgn9\n", "FBgn1\n">>],
      [kind |-> "file", lines |-> <<"# none\n">>] }

NoFasta == [kind |-> "none", recs |-> <<>>]

\* The name of the k-th ID file of the command line (distinct stems).
id_file_name(k) == "ids" \o ToString(k) \o ".txt"

NoOutput == [exists |-> FALSE, writes |-> <<>>]

(***************************************************************************)
(* The runs.                                                               *)
(***************************************************************************)
Init ==
    /\ script \in {"updater", "symbol", "fasta"}
    /\ src \in CASE script = "updater" -> SeqsUpTo(UpdaterLines, MaxRows)
               [] script = "symbol" -> SeqsUpTo(SymbolLines, MaxRows)
               [] OTHER -> {<<>>}
    /\ queries \in CASE script = "updater" -> SeqsUpTo(UpdaterQueries, MaxQueries)
                   [] script = "symbol" -> SeqsUpTo(SymbolQueries, MaxQueries)
                   [] OTHER -> {<<>>}
    /\ fasta_file \in (IF script = "fasta" THEN FastaFiles ELSE {NoFasta})
    /\ idfiles \in (IF script = "fasta"
                    THEN SeqsUpTo(IdFiles, MaxQueries) \ {<<>>}
                    ELSE {<<>>})
    /\ pc = "build"
    /\ row = 0
    /\ qn = 0
    /\ fbid_dict = EmptyDict
    /\ current_fbids = {}
    /\ symbol_dict = EmptyDict
    /\ stdout = <<>>
    /\ stderr = <<>>
    /\ fasta_records = <<>>
    /\ fasta_idx = EmptyDict
    /\ outputs = [k \in 1..Len(idfiles) |-> NoOutput]

inputs == <<script, src, queries, fasta_file, idfiles>>
fasta_state == <<fasta_records, fasta_idx, outputs>>

\* fbgn_updater.py: one iteration of the loop of generate_inverted_fbid_dict.
\* A retained row of fewer than four fields raises ValueError out of the
\* function; __main__ catches it and prints the usage message.
generate_inverted_fbid_dict_row ==
    /\ script = "updater" /\ pc = "build" /\ row < Len(src)
    /\ LET line == Strip(src[row + 1])
           skip == ~fbid_retained(line)
           raises == ~skip /\ ~fbid_unpacks(line)
       IN  /\ pc' = IF raises THEN "usage" ELSE pc
           /\ stderr' = IF raises THEN Append(stderr, UpdaterUsage) ELSE stderr
           /\ row' = IF raises THEN row ELSE row + 1
           /\ fbid_dict' = IF skip \/ raises THEN fbid_dict
                           ELSE fbid_row_dict(line, fbid_dict)
           /\ current_fbids' = IF skip \/ raises THEN current_fbids
                               ELSE fbid_row_current(line, current_fbids)
    /\ UNCHANGED <<inputs, symbol_dict, qn, stdout, fasta_state>>

\* fbgn_updater.py: generate_inverted_fbid_dict returns, __main__ prints the
\* header and calls main().
generate_inverted_fbid_dict_return ==
    /\ script = "updater" /\ pc = "build" /\ row = Len(src)
    /\ pc' = "resolve"
    /\ stdout' = stdout \o UpdaterHeader
    /\ UNCHANGED <<inputs, row, fbid_dict, current_fbids, symbol_dict, qn, stderr,
                   fasta_state>>

\* fbgn_updater.py: one iteration of the loop of main().
main_line ==
    /\ script = "updater" /\ pc = "resolve" /\ qn < Len(queries)
    /\ \E l \in main_lines(Strip(queries[qn + 1]), fbid_dict, current_fbids) :
            stdout' = Append(stdout, l)
    /\ qn' = qn + 1
    /\ UNCHANGED <<inputs, pc, row, fbid_dict, current_fbids, symbol_dict, stderr,
                   fasta_state>>

\* fbgn_updater.py: main() returns.
main_return ==
    /\ script = "updater" /\ pc = "resolve" /\ qn = Len(queries)
    /\ pc' = "done"
    /\ UNCHANGED <<inputs, row, fbid_dict, current_fbids, symbol_dict, qn, stdout,
                   stderr, fasta_state>>

\* symbol_to_id_lookup.py: one iteration of the loop of
\* generate_inverted_symbol_dict; an IndexError is caught, reported and the
\* loop continues.
generate_inverted_symbol_dict_row ==
    /\ script = "symbol" /\ pc = "build" /\ row < Len(src)
    /\ LET line == Strip(src[row + 1])
           skip == ~symbol_retained(line)
           raises == ~skip /\ symbol_index_error(line)
       IN  /\ stderr' = IF raises THEN Append(stderr, FormatDiagnostic(line)) ELSE stderr
           /\ symbol_dict' = IF skip \/ raises THEN symbol_dict
                             ELSE symbol_row_dict(line, symbol_dict)
    /\ row' = row + 1
    /\ UNCHANGED <<inputs, pc, fbid_dict, current_fbids, qn, stdout, fasta_state>>

\* symbol_to_id_lookup.py: generate_inverted_symbol_dict returns.
generate_inverted_symbol_dict_return ==
    /\ script = "symbol" /\ pc = "build" /\ row = Len(src)
    /\ pc' = "resolve"
    /\ UNCHANGED <<inputs, row, fbid_dict, current_fbids, symbol_dict, qn, stdout,
                   stderr, fasta_state>>

\* symbol_to_id_lookup.py: one iteration of the lookup loop of __main__.
lookup_line ==
    /\ script = "symbol" /\ pc = "resolve" /\ qn < Len(queries)
    /\ \E l \in lookup_lines(Strip(queries[qn + 1]), symbol_dict) :
            stdout' = Append(stdout, l)
    /\ qn' = qn + 1
    /\ UNCHANGED <<inputs, pc, row, fbid_dict, current_fbids, symbol_dict, stderr,
                   fasta_state>>

\* symbol_to_id_lookup.py: the lookup loop ends.
lookup_return ==
    /\ script = "symbol" /\ pc = "resolve" /\ qn = Len(queries)
    /\ pc' = "done"
    /\ UNCHANGED <<inputs, row, fbid_dict, current_fbids, symbol_dict, qn, stdout,
                   stderr, fasta_state>>

updater_state == <<src, queries, fbid_dict, current_fbids, symbol_dict, stdout>>

\* flybase_id_to_fasta.py: one iteration of the enumerate loop of read_fasta.
read_fasta_record ==
    /\ script = "fasta" /\ pc = "build"
    /\ fasta_file.kind = "gz" /\ row < Len(fasta_file.recs)
    /\ fasta_records' = Append(fasta_records, fasta_file.recs[row + 1])
    /\ fasta_idx' = read_fasta_idx(fasta_idx, fasta_file.recs[row + 1], row)
    /\ row' = row + 1
    /\ UNCHANGED <<script, fasta_file, idfiles, updater_state, pc, qn, stderr, outputs>>

\* flybase_id_to_fasta.py: read_fasta returns (records, idx), after the loop or
\* after the message for a file that is not gzipped.
read_fasta_return ==
    /\ script = "fasta" /\ pc = "build"
    /\ \/ fasta_file.kind = "gz" /\ row = Len(fasta_file.recs) /\ stderr' = stderr
       \/ /\ fasta_file.kind = "plain"
          /\ stderr' = Append(stderr, "Only gzipped FASTA files are currently supported.")
    /\ pc' = "resolve"
    /\ UNCHANGED <<script, fasta_file, idfiles, updater_state, row, qn, fasta_state>>

\* flybase_id_to_fasta.py: read_fasta catches FileNotFoundError and returns
\* None; unpacking None at line 147 raises TypeError, which nothing catches.
read_fasta_none ==
    /\ script = "fasta" /\ pc = "build" /\ fasta_file.kind = "missing"
    /\ stderr' = stderr \o <<"fasta not found, please check that your path is correct and you have permission to read the file.",
                             "TypeError">>
    /\ pc' = "crashed"
    /\ UNCHANGED <<script, fasta_file, idfiles, updater_state, row, qn, fasta_state>>

\* flybase_id_to_fasta.py: one iteration of the loop over args.idfile:
\* read_id_file, then fbid_to_fasta when there are IDs.  The output file is
\* opened (created) before the first lookup; a KeyError of index[fbid] leaves
\* what was written and ends the process.
idfile_step ==
    /\ script = "fasta" /\ pc = "resolve" /\ qn < Len(idfiles)
    /\ LET file == idfiles[qn + 1]
           ids == IF file.kind = "missing" THEN {} ELSE read_id_file(file.lines)
       IN  \E o \in Orders(ids) :
             /\ outputs' = IF ids = {} THEN outputs
                           ELSE [outputs EXCEPT ![qn + 1] =
                                   [exists |-> TRUE,
                                    writes |-> fbid_to_fasta_writes(o, fasta_records, fasta_idx)]]
             /\ pc' = IF fbid_to_fasta_raises(o, fasta_idx) THEN "crashed" ELSE pc
             /\ stderr' = IF file.kind = "missing"
                          THEN Append(stderr, id_file_name(qn + 1) \o " not found")
                          ELSE IF fbid_to_fasta_raises(o, fasta_idx)
                          THEN Append(stderr, "KeyError")
                          ELSE stderr
    /\ qn' = qn + 1
    /\ UNCHANGED <<script, fasta_file, idfiles, updater_state, row, fasta_records, fasta_idx>>

\* flybase_id_to_fasta.py: the loop over args.idfile ends.
idfiles_done ==
    /\ script = "fasta" /\ pc = "resolve" /\ qn = Len(idfiles)
    /\ pc' = "done"
    /\ UNCHANGED <<script, fasta_file, idfiles, updater_state, row, qn, stderr, fasta_state>>

Next ==
    \/ generate_inverted_fbid_dict_row
    \/ generate_inverted_fbid_dict_return
    \/ main_line
    \/ main_return
    \/ generate_inverted_symbol_dict_row
    \/ generate_inverted_symbol_dict_return
    \/ lookup_line
    \/ lookup_return
    \/ read_fasta_record
    \/ read_fasta_return
    \/ read_fasta_none
    \/ idfile_step
    \/ idfiles_done

Spec == Init /\ [][Next]_vars

(***************************************************************************)
(* Reading the output back, for the properties below.                      *)
(***************************************************************************)
IsLookupScript == script \in {"updater", "symbol"}
Resolving == IsLookupScript /\ pc \in {"resolve", "done"}

\* The result lines: standard output after the updater's header.
HeaderLen == IF script = "updater" THEN Len(UpdaterHeader) ELSE 0
Results ==
    IF Len(stdout) > HeaderLen THEN SubSeq(stdout, HeaderLen + 1, Len(stdout)) ELSE <<>>

\* The i-th query key: the i-th line of the user's file, trimmed.
TrimmedLine == [line \in UpdaterQueries \cup SymbolQueries |-> Strip(line)]
QueryKey(i) == TrimmedLine[queries[i]]

\* The index the resolver of the running script looks keys up in.
Index == IF script = "updater" THEN fbid_dict ELSE symbol_dict

\* Whether a key takes the index branch of the resolver.
ResolvesByIndex(key) ==
    /\ key \in DOMAIN Index
    /\ script = "updater" => key \notin current_fbids

\* Whether a key is in neither the current set nor the index.
IsMiss(key) ==
    /\ key \notin DOMAIN Index
    /\ script = "updater" => key \notin current_fbids

\* The tab-separated fields of a result line that follow its key.
FieldsAfter(key, line) ==
    LET rest == SubSeq(line, Len(key) + 1, Len(line))
    IN  IF rest = "" THEN <<>> ELSE Tail(Split(rest, "\t"))

NoDuplicates(seq) == \A a, b \in 1..Len(seq) : a # b => seq[a] # seq[b]

(***************************************************************************)
(* C1: the updater and the symbol lookup print exactly one result line per *)
(* line of the user's file, in the file's order: after qn lines there are  *)
(* qn result lines, the i-th is a single line that is the i-th trimmed key *)
(* alone or the key followed by a tab, a repeated key has a line for each  *)
(* occurrence, and a finished run has answered every line.                 *)
(***************************************************************************)
C1_OneLinePerQuery ==
    Resolving =>
        /\ Len(Results) = qn
        /\ pc = "done" => qn = Len(queries)
        /\ \A i \in 1..qn :
              /\ ~Contains(Results[i], "\n")
              /\ \/ Results[i] = QueryKey(i)
                 \/ StartsWith(Results[i], QueryKey(i) \o "\t")

\* A finished updater run over a file that names the same resolved key twice.
C1_Witness ==
    /\ script = "updater" /\ pc = "done" /\ Len(queries) = 2
    /\ QueryKey(1) = QueryKey(2)
    /\ ResolvesByIndex(QueryKey(1))
    /\ Len(Results) = 2

(***************************************************************************)
(* C2: in the updater a query key that is in the current set is printed as *)
(* the bare key, also when it is a secondary key of the inverted index.    *)
(***************************************************************************)
C2_CurrentKeyPrintedBare ==
    (script = "updater" /\ Resolving) =>
        \A i \in 1..qn : QueryKey(i) \in current_fbids => Results[i] = QueryKey(i)

\* A current ID that is also a secondary ID of another row has been answered.
C2_Witness ==
    /\ script = "updater" /\ Resolving
    /\ \E i \in 1..qn :
          QueryKey(i) \in current_fbids /\ QueryKey(i) \in DOMAIN fbid_dict

(***************************************************************************)
(* C3: a key (a blank line too) that is in neither the current set nor the *)
(* index is answered KEY<TAB>None by the updater and KEY by the symbol     *)
(* lookup; the resolver never ends in an error and a finished run has      *)
(* answered the lines that follow the miss.                                *)
(***************************************************************************)
C3_MissIsAnOutput ==
    /\ IsLookupScript => pc # "crashed"
    /\ Resolving =>
        /\ pc = "done" => qn = Len(queries)
        /\ \A i \in 1..qn :
              IsMiss(QueryKey(i)) =>
                  Results[i] = IF script = "updater"
                               THEN QueryKey(i) \o "\tNone"
                               ELSE QueryKey(i)

\* A blank line missed, and the line after it answered too.
C3_Witness ==
    /\ Resolving /\ pc = "done" /\ Len(queries) = 2 /\ Len(Results) = 2
    /\ QueryKey(1) = "" /\ IsMiss("")

(***************************************************************************)
(* The reference rows as the properties below read them.                   *)
(***************************************************************************)
Terminated == pc \in {"done", "usage", "crashed"}

\* A line of the updater's reference file: its fields, whether it is a gene
\* row with the four columns, its primary ID and its non-empty secondary IDs.
UpdLineFields(line) == Split(Strip(line), "\t")
UpdLineWellFormed(line) == fbid_retained(Strip(line)) /\ Len(UpdLineFields(line)) >= 4
UpdLineKeys(line) ==
    IF UpdLineWellFormed(line)
    THEN Range(Split(UpdLineFields(line)[4], ",")) \ {""}
    ELSE {}
UpdLineTable ==
    [line \in UpdaterLines |->
        [wellformed |-> UpdLineWellFormed(line),
         primary |-> IF UpdLineWellFormed(line) THEN UpdLineFields(line)[3] ELSE "",
         secondaries |-> IF UpdLineWellFormed(line)
                         THEN Range(Split(UpdLineFields(line)[4], ",")) ELSE {},
         keys |-> UpdLineKeys(line)]]

\* The same of the j-th row of the reference file.
UpdRowWellFormed(j) == UpdLineTable[src[j]].wellformed
UpdRowPrimary(j) == UpdLineTable[src[j]].primary
UpdRowSecondaries(j) == UpdLineTable[src[j]].secondaries
UpdRowKeys(j) == UpdLineTable[src[j]].keys

\* The items of a synonym column: the pieces between the commas that are not
\* followed by whitespace.
SynonymCuts(col) ==
    {0, Len(col) + 1}
        \cup {i \in 1..Len(col) :
                Char(col, i) = "," /\ (i = Len(col) \/ Char(col, i + 1) \notin Whitespace)}
SynonymItems(col) ==
    {SubSeq(col, a + 1, b - 1) :
        <<a, b>> \in {c \in SynonymCuts(col) \X SynonymCuts(col) :
                        c[1] < c[2] /\ \A m \in SynonymCuts(col) : ~(c[1] < m /\ m < c[2])}}

\* A line of the synonym file: its columns, whether it is a gene or
\* transcript row, whether it is one of Dmel with a symbol column, its ID,
\* and the items of its symbol, full name (if non-empty) and two synonym
\* columns.
SymLineCols(line) == Split(Strip(line), "\t")
SymLineIsDmel(line) ==
    /\ symbol_retained(Strip(line))
    /\ Len(SymLineCols(line)) >= 3
    /\ SymLineCols(line)[2] = "Dmel"
SymLineItems(line) ==
    LET cols == SymLineCols(line)
    IN  IF ~SymLineIsDmel(line) THEN {}
        ELSE {cols[3]}
                \cup (IF Len(cols) >= 4 /\ cols[4] # "" THEN {cols[4]} ELSE {})
                \cup (IF Len(cols) >= 5 THEN SynonymItems(cols[5]) ELSE {})
                \cup (IF Len(cols) >= 6 THEN SynonymItems(cols[6]) ELSE {})
SymLineTable ==
    [line \in SymbolLines |->
        [retained |-> symbol_retained(Strip(line)),
         ncols |-> Len(SymLineCols(line)),
         dmel |-> SymLineIsDmel(line),
         id |-> SymLineCols(line)[1],
         items |-> SymLineItems(line),
         keys |-> SymLineItems(line) \ {""}]]

\* The same of the j-th row of the synonym file.
SymRowIsDmel(j) == SymLineTable[src[j]].dmel
SymRowId(j) == SymLineTable[src[j]].id
SymRowItems(j) == SymLineTable[src[j]].items
SymRowKeys(j) == SymLineTable[src[j]].keys

\* The keys and the primary key of the j-th row of the running script.
RowKeys(j) == IF script = "updater" THEN UpdRowKeys(j) ELSE SymRowKeys(j)
RowPrimary(j) == IF script = "updater" THEN UpdRowPrimary(j) ELSE SymRowId(j)

(***************************************************************************)
(* C4: a retained row with too few fields does not abort either script:    *)
(* when the run has ended, every well-formed row of the reference file,    *)
(* before or after the malformed one, is in the index and every line of    *)
(* the user's file has its result line.                                    *)
(***************************************************************************)
C4_MalformedRowsSkipped ==
    (IsLookupScript /\ Terminated) =>
        /\ \A j \in 1..Len(src) :
              \A key \in RowKeys(j) :
                  key \in DOMAIN Index /\ RowPrimary(j) \in Index[key]
        /\ Len(Results) = Len(queries)

\* The symbol script alone does recover from such rows.
C4_SymbolScriptRecovers ==
    (script = "symbol" /\ Terminated) =>
        /\ pc = "done"
        /\ \A j \in 1..Len(src) :
              \A key \in RowKeys(j) :
                  key \in DOMAIN Index /\ RowPrimary(j) \in Index[key]
        /\ Len(Results) = Len(queries)

(***************************************************************************)
(* C5: in the FASTA extractor a fatal error of one ID file does not keep   *)
(* the later ID files from being handled: when the run has ended, every ID *)
(* file was read and every readable one that lists IDs has its output      *)
(* file.                                                                   *)
(***************************************************************************)
C5_LaterFilesAttempted ==
    (script = "fasta" /\ Terminated) =>
        /\ qn = Len(idfiles)
        /\ \A k \in 1..Len(idfiles) :
              (idfiles[k].kind = "file" /\ read_id_file(idfiles[k].lines) # {})
                  => outputs[k].exists

(***************************************************************************)
(* C6 as stated: for both scripts a key resolved through the index is      *)
(* printed as the key and then one tab-separated field per primary key of  *)
(* its entry, each exactly once.                                           *)
(***************************************************************************)
C6_TabSeparatedFields ==
    Resolving =>
        \A i \in 1..qn :
            ResolvesByIndex(QueryKey(i)) =>
                LET fields == FieldsAfter(QueryKey(i), Results[i])
                IN  /\ StartsWith(Results[i], QueryKey(i) \o "\t")
                    /\ NoDuplicates(fields)
                    /\ Range(fields) = Index[QueryKey(i)]

(***************************************************************************)
(* C6 amended: the updater prints the key and then one tab-separated field *)
(* per primary key of its entry, each exactly once; the symbol lookup      *)
(* prints the key, a tab, and one field that is the primary keys of the    *)
(* entry joined by commas, each exactly once.                              *)
(***************************************************************************)
C6_TabsOrCommaJoined ==
    Resolving =>
        \A i \in 1..qn :
            ResolvesByIndex(QueryKey(i)) =>
                LET fields == FieldsAfter(QueryKey(i), Results[i])
                IN  /\ StartsWith(Results[i], QueryKey(i) \o "\t")
                    /\ script = "updater" =>
                          /\ NoDuplicates(fields)
                          /\ Range(fields) = Index[QueryKey(i)]
                    /\ script = "symbol" =>
                          /\ Len(fields) = 1
                          /\ \E o \in Orders(Index[QueryKey(i)]) : fields[1] = Join(o, ",")

\* The symbol lookup has answered a key whose entry holds two primary keys.
C6_Witness ==
    /\ Resolving
    /\ \E i \in 1..qn :
          ResolvesByIndex(QueryKey(i)) /\ Cardinality(Index[QueryKey(i)]) >= 2
    /\ script = "symbol"

(***************************************************************************)
(* C7: after every prefix of rows of the updater and symbol index          *)
(* builders, every key of the index maps to a non-empty set, and that set  *)
(* holds the primary key of every row read so far that lists the key: rows *)
(* that share an alias are all in its set, nothing is removed or           *)
(* overwritten by a later row.                                             *)
(***************************************************************************)
C7_IndexAccumulates ==
    IsLookupScript =>
        /\ \A key \in DOMAIN Index : Index[key] # {}
        /\ \A j \in 1..row :
              \A key \in RowKeys(j) :
                  key \in DOMAIN Index /\ RowPrimary(j) \in Index[key]

\* Two rows with different primary keys share an alias, and both were read.
C7_Witness ==
    /\ IsLookupScript /\ row = 2
    /\ RowKeys(1) \cap RowKeys(2) # {}
    /\ RowPrimary(1) # RowPrimary(2)

(***************************************************************************)
(* C8: every index has set semantics, the FASTA index of read_fasta too:   *)
(* no record index occurs twice under one key, also when one header names  *)
(* the same identifier in its parent= tag and its ID= tag; so no ID file   *)
(* that lists a single ID gets a record written twice.                     *)
(***************************************************************************)
C8_IndexValuesAreSets ==
    /\ \A key \in DOMAIN fasta_idx : NoDuplicates(fasta_idx[key])
    /\ \A k \in 1..Len(outputs) :
          (idfiles[k].kind = "file" /\ Cardinality(read_id_file(idfiles[k].lines)) = 1)
              => Len(outputs[k].writes) <= Len(fasta_records)

(***************************************************************************)
(* C9 as stated: after every prefix of rows of the synonym file, the       *)
(* symbol index is exactly: each retained Dmel row's symbol, full name (if *)
(* non-empty) and every item of its two synonym columns, split at commas   *)
(* not followed by whitespace, mapped to the IDs of the rows that list it; *)
(* rows of another species add nothing.                                    *)
(***************************************************************************)
C9_RowAddsItsItems ==
    script = "symbol" =>
        /\ DOMAIN symbol_dict = UNION {SymRowItems(j) : j \in 1..row}
        /\ \A key \in DOMAIN symbol_dict :
              symbol_dict[key] = {SymRowId(j) : j \in {m \in 1..row : key \in SymRowItems(m)}}

(***************************************************************************)
(* C9 amended: the same with the empty string left out: an empty symbol    *)
(* and an empty item of a synonym column (two commas in a row, a comma at  *)
(* the end) add no key; a Dmel row without a symbol column adds nothing.   *)
(***************************************************************************)
C9_RowAddsItsNonEmptyItems ==
    script = "symbol" =>
        /\ DOMAIN symbol_dict = UNION {SymRowKeys(j) : j \in 1..row}
        /\ \A key \in DOMAIN symbol_dict :
              symbol_dict[key] = {SymRowId(j) : j \in {m \in 1..row : key \in SymRowKeys(m)}}

\* A Dmel row with both kinds of comma was read: "n1,n2" gave two keys and
\* "s1, x" one; and a row of another species was read.
C9_Witness ==
    /\ script = "symbol" /\ row = 2
    /\ {"n1", "n2", "s1, x"} \subseteq DOMAIN symbol_dict
    /\ \E j \in 1..row :
          /\ SymLineTable[src[j]].retained
          /\ SymLineTable[src[j]].ncols >= 3
          /\ ~SymRowIsDmel(j)

(***************************************************************************)
(* C10: in the updater, after every prefix of rows, every primary key in a *)
(* value set of the inverted index is in the current set and the empty     *)
(* string is not a key; so every field the resolver prints after a query   *)
(* key, other than None, is a current ID.                                  *)
(***************************************************************************)
C10_UpdatedIdsAreCurrent ==
    script = "updater" =>
        /\ \A key \in DOMAIN fbid_dict : fbid_dict[key] \subseteq current_fbids
        /\ "" \notin DOMAIN fbid_dict
        /\ \A i \in 1..Len(Results) :
              \A n \in 1..Len(FieldsAfter(QueryKey(i), Results[i])) :
                  LET id == FieldsAfter(QueryKey(i), Results[i])[n]
                  IN  id = "None" \/ id \in current_fbids

\* The resolver has printed an updated ID for a secondary ID, from a file
\* with an empty item in a secondary-ID column.
C10_Witness ==
    /\ script = "updater" /\ pc = "done"
    /\ \E j \in 1..row : "" \in UpdRowSecondaries(j)
    /\ \E i \in 1..Len(Results) :
          /\ ResolvesByIndex(QueryKey(i))
          /\ Len(FieldsAfter(QueryKey(i), Results[i])) >= 1

====
